---- MODULE Spec2Model ----
(***************************************************************************)
(* A model of simple_linter.py: the SimpleLinter class (its three fields,  *)
(* lint_file and the checks it calls) and main.                            *)
(*                                                                         *)
(* A Python string is a sequence of one-character strings, so that strip,  *)
(* lower, split, startswith and len are computed character by character.   *)
(* A message built by an f-string is the concatenation of its literal      *)
(* parts (each one string) and of its interpolated strings.  The three     *)
(* emoji the program prints are written [x], [ok] and [!]; its bullet, *.  *)
(***************************************************************************)
EXTENDS Integers, Sequences, FiniteSets, TLC

VARIABLES disk, errors, warnings, line_map, stdout, result, last, calls, exit_code, prior

vars == <<disk, errors, warnings, line_map, stdout, result, last, calls, exit_code, prior>>

(***************************************************************************)
(* Bounds of the model.                                                    *)
(***************************************************************************)
\* the longest array built from the core items
MaxItems == 2
\* the number of lint_file calls made on one instance
MaxCalls == 3
\* the longest raw text given to _build_line_map on its own
MaxText == 6

(***************************************************************************)
(* Python's str methods.                                                   *)
(***************************************************************************)
UpperChars == <<"A", "B", "C", "D", "E", "F", "G", "H", "I", "J", "K", "L", "M",
                "N", "O", "P", "Q", "R", "S", "T", "U", "V", "W", "X", "Y", "Z">>

LowerChars == <<"a", "b", "c", "d", "e", "f", "g", "h", "i", "j", "k", "l", "m",
                "n", "o", "p", "q", "r", "s", "t", "u", "v", "w", "x", "y", "z">>

Whitespace == {" ", "\t", "\n", "\r", "\f"}

Digits == <<"0", "1", "2", "3", "4", "5", "6", "7", "8", "9">>

isupper(c) == \E k \in DOMAIN UpperChars : UpperChars[k] = c

lower_char(c) ==
    IF isupper(c) THEN LowerChars[CHOOSE k \in DOMAIN UpperChars : UpperChars[k] = c]
    ELSE c

lower(s) == [k \in 1..Len(s) |-> lower_char(s[k])]

RECURSIVE lstrip(_)
lstrip(s) == IF s # <<>> /\ Head(s) \in Whitespace THEN lstrip(Tail(s)) ELSE s

RECURSIVE rstrip(_)
rstrip(s) ==
    IF s # <<>> /\ s[Len(s)] \in Whitespace THEN rstrip(SubSeq(s, 1, Len(s) - 1)) ELSE s

strip(s) == rstrip(lstrip(s))

startswith(s, prefix) ==
    Len(s) >= Len(prefix) /\ SubSeq(s, 1, Len(prefix)) = prefix

\* s.split(): the maximal runs of non-whitespace characters, in order
RECURSIVE split_from(_, _, _)
split_from(s, word, words) ==
    IF s = <<>> THEN (IF word = <<>> THEN words ELSE Append(words, word))
    ELSE IF Head(s) \in Whitespace
         THEN split_from(Tail(s), <<>>, IF word = <<>> THEN words ELSE Append(words, word))
         ELSE split_from(Tail(s), Append(word, Head(s)), words)

split(s) == split_from(s, <<>>, <<>>)

\* s.split('\n'): the pieces between the newlines, empty pieces kept; piece k
\* runs from after newline k - 1 (or the start) to before newline k (or the end)
split_lines(s) ==
    LET newlines == {p \in 1..Len(s) : s[p] = "\n"}
        n == Cardinality(newlines)
        at(k) == IF k = 0 THEN 0
                 ELSE IF k = n + 1 THEN Len(s) + 1
                 ELSE CHOOSE p \in newlines : Cardinality({q \in newlines : q < p}) = k - 1
    IN  [k \in 1..(n + 1) |-> SubSeq(s, at(k - 1) + 1, at(k) - 1)]

\* c in s
contains(s, c) == \E k \in 1..Len(s) : s[k] = c

\* str(n) of a natural number
RECURSIVE str(_)
str(n) == IF n < 10 THEN <<Digits[n + 1]>> ELSE str(n \div 10) \o <<Digits[(n % 10) + 1]>>

\* ', '.join(strings)
RECURSIVE join(_)
join(strings) ==
    IF strings = <<>> THEN <<>>
    ELSE IF Len(strings) = 1 THEN Head(strings)
    ELSE Head(strings) \o <<", ">> \o join(Tail(strings))

(***************************************************************************)
(* Decoded JSON values.  A value inside an item is [ty, s]: its type and   *)
(* its text (the characters of a string, the literal of anything else).    *)
(* An element of the top-level array is [ty, s, keys, tagKey, value]: for  *)
(* an object, keys is the set of keys present among "tagKey" and "value".  *)
(***************************************************************************)
Absent == [ty |-> "absent", s |-> <<>>]

String(s) == [ty |-> "string", s |-> s]

Number(s) == [ty |-> "number", s |-> s]

Null == [ty |-> "null", s |-> <<"n", "u", "l", "l">>]

JTrue == [ty |-> "bool", s |-> <<"t", "r", "u", "e">>]

EmptyArray == [ty |-> "array", s |-> <<"[", "]">>]

EmptyObject == [ty |-> "object", s |-> <<"{", "}">>]

\* str(v) of a decoded value, as an f-string formats it
py_str(v) ==
    CASE v.ty = "null" -> <<"N", "o", "n", "e">>
      [] v.ty = "bool" -> IF v.s = JTrue.s THEN <<"T", "r", "u", "e">>
                          ELSE <<"F", "a", "l", "s", "e">>
      [] OTHER -> v.s

\* an object element: Absent for a key that is not there
Object(tagKey, value) ==
    [ty |-> "object", s |-> <<>>,
     keys |-> {k \in {"tagKey", "value"} :
                 (k = "tagKey" /\ tagKey # Absent) \/ (k = "value" /\ value # Absent)},
     tagKey |-> tagKey, value |-> value]

\* an element that is no object
Element(v) == [ty |-> v.ty, s |-> v.s, keys |-> {}, tagKey |-> Absent, value |-> Absent]

\* isinstance(item, dict)
is_dict(item) == item.ty = "object"

(***************************************************************************)
(* The line map: a dict from item index to line number.                    *)
(***************************************************************************)
EmptyDict == [k \in {} |-> 0]

dict_set(d, key, val) == [k \in DOMAIN d \cup {key} |-> IF k = key THEN val ELSE d[k]]

\* the loop of _build_line_map, were a line with "}" and "," to reset the counter
RECURSIVE build_line_map_loop_reset(_, _, _, _)
build_line_map_loop_reset(lm, lines, line_num, current_item) ==
    IF line_num > Len(lines) THEN lm
    ELSE LET line == lines[line_num] IN
         IF contains(line, "{") /\ current_item = -1
         THEN build_line_map_loop_reset(dict_set(lm, 0, line_num), lines, line_num + 1, 0)
         ELSE IF contains(line, "{") /\ current_item >= 0
         THEN build_line_map_loop_reset(dict_set(lm, current_item + 1, line_num), lines,
                                        line_num + 1, current_item + 1)
         ELSE IF contains(line, "}") /\ contains(line, ",")
         THEN build_line_map_loop_reset(lm, lines, line_num + 1, -1)
         ELSE build_line_map_loop_reset(lm, lines, line_num + 1, current_item)

\* the loop of _build_line_map from line number line_num on; current_item
\* is the counter, -1 while no brace was seen
RECURSIVE build_line_map_loop(_, _, _, _)
build_line_map_loop(lm, lines, line_num, current_item) ==
    IF line_num > Len(lines) THEN lm
    ELSE LET line == lines[line_num] IN
         IF contains(line, "{") /\ current_item = -1
         THEN build_line_map_loop(dict_set(lm, 0, line_num), lines, line_num + 1, 0)
         ELSE IF contains(line, "{") /\ current_item >= 0
         THEN build_line_map_loop(dict_set(lm, current_item + 1, line_num), lines,
                                  line_num + 1, current_item + 1)
         ELSE IF contains(line, "}") /\ contains(line, ",")
         THEN build_line_map_loop(lm, lines, line_num + 1, current_item)
         ELSE build_line_map_loop(lm, lines, line_num + 1, current_item)

build_line_map(lm, content) == build_line_map_loop(lm, split_lines(content), 1, -1)

get_line_info(lm, index) ==
    IF index \in DOMAIN lm /\ lm[index] # 0
    THEN <<" (line ">> \o str(lm[index]) \o <<")">>
    ELSE <<>>

(***************************************************************************)
(* One run of the linter works on a record st: the instance's three fields *)
(* (errors, warnings, line_map), what the call has printed so far (stdout) *)
(* and the exception it has raised, if any (raised, "" for none).          *)
(***************************************************************************)
Constructed ==
    [errors |-> <<>>, warnings |-> <<>>, line_map |-> EmptyDict,
     stdout |-> <<>>, raised |-> ""]

add_error(st, msg) == [st EXCEPT !.errors = Append(@, msg)]

add_warning(st, msg) == [st EXCEPT !.warnings = Append(@, msg)]

print(st, text) == [st EXCEPT !.stdout = Append(@, text)]

raise(st, exception) == [st EXCEPT !.raised = exception]

\* isinstance(data, list)
is_list(data) == data.ty = "array"

RECURSIVE check_structure_loop(_, _, _)
check_structure_loop(st, data, i) ==
    IF i >= Len(data.items) THEN st
    ELSE LET item == data.items[i + 1]
             line_info == get_line_info(st.line_map, i)
         IN  check_structure_loop(
                 IF ~is_dict(item)
                 THEN add_error(st, <<"Item ">> \o str(i) \o <<" should be an object">>
                                    \o line_info)
                 ELSE st,
                 data, i + 1)

\* check_structure without the return after "JSON should be an array"
check_structure_no_return(st, data) ==
    LET st1 == IF ~is_list(data) THEN add_error(st, <<"JSON should be an array">>) ELSE st
    IN  check_structure_loop(
            IF Len(data.items) = 0 THEN add_warning(st1, <<"Array is empty">>) ELSE st1,
            data, 0)

check_structure(st, data) ==
    IF ~is_list(data) THEN add_error(st, <<"JSON should be an array">>)
    ELSE check_structure_loop(
             IF Len(data.items) = 0 THEN add_warning(st, <<"Array is empty">>) ELSE st,
             data, 0)

(***************************************************************************)
(* The validators.  value is a string: a "tagKey" or "value" that is       *)
(* present and no string has raised in _check_content before they run.     *)
(***************************************************************************)
DataClassification ==
    <<"D", "a", "t", "a", " ", "C", "l", "a", "s", "s", "i", "f", "i", "c", "a", "t", "i",
      "o", "n">>

BusinessGroups ==
    <<"B", "u", "s", "i", "n", "e", "s", "s", " ", "G", "r", "o", "u", "p", "s">>

OwningBusinessGroup ==
    <<"O", "w", "n", "i", "n", "g", " ", "B", "u", "s", "i", "n", "e", "s", "s", " ", "g",
      "r", "o", "u", "p">>

Environment == <<"E", "n", "v", "i", "r", "o", "n", "m", "e", "n", "t">>

valid_values ==
    << <<"D", "C", "L", "1">>, <<"D", "C", "L", "2">>, <<"D", "C", "L", "3">>,
       <<"D", "C", "L", "4">> >>

valid_prefixes ==
    << <<"g", "i", "p">>, <<"e", "n", "g">>, <<"o", "p", "s">>, <<"f", "i", "n">> >>

valid_environments ==
    << <<"d", "e", "v">>,
       <<"d", "e", "v", "e", "l", "o", "p", "m", "e", "n", "t">>,
       <<"s", "t", "a", "g", "i", "n", "g">>,
       <<"s", "t", "a", "g", "e">>,
       <<"p", "r", "o", "d">>,
       <<"p", "r", "o", "d", "u", "c", "t", "i", "o", "n">> >>

\* x in a list
in_list(x, list) == \E k \in 1..Len(list) : list[k] = x

validate_data_classification(st, value, line_info) ==
    IF value # <<>> /\ ~in_list(value, valid_values)
    THEN add_warning(st, <<"Invalid Data Classification '">> \o value
                         \o <<"' (should be one of: ">> \o join(valid_values) \o <<")">>
                         \o line_info)
    ELSE st

\* business_groups_too_short with <= for <
business_groups_too_short_le(value) == value # <<>> /\ Len(value) <= 2

business_groups_too_short(value) == value # <<>> /\ Len(value) < 2

business_groups_bad_prefix(value) ==
    value # <<>> /\ ~(\E k \in 1..Len(valid_prefixes) :
                         startswith(lower(value), valid_prefixes[k]))

validate_business_groups(st, value, line_info) ==
    LET st1 == IF business_groups_too_short(value)
               THEN add_warning(st, <<"Business Groups value '">> \o value
                                    \o <<"' is too short (minimum 2 characters)">>
                                    \o line_info)
               ELSE st
    IN  IF business_groups_bad_prefix(value)
        THEN add_warning(st1, <<"Business Groups '">> \o value
                              \o <<"' should start with one of: ">>
                              \o join(valid_prefixes) \o line_info)
        ELSE st1

validate_owning_business_group(st, value, line_info) ==
    LET st1 == IF value # <<>> /\ Len(value) < 5
               THEN add_warning(st, <<"Owning Business group '">> \o value
                                    \o <<"' is too short (minimum 5 characters)">>
                                    \o line_info)
               ELSE st
        words == split(value)
    IN  IF value # <<>> /\ ~(\E k \in 1..Len(words) : isupper(words[k][1]))
        THEN add_warning(st1, <<"Owning Business group '">> \o value
                              \o <<"' should have proper capitalization">> \o line_info)
        ELSE st1

\* environment_invalid without the lower()
environment_invalid_case_sensitive(value) ==
    value # <<>> /\ ~in_list(value, valid_environments)

environment_invalid(value) == value # <<>> /\ ~in_list(lower(value), valid_environments)

validate_environment(st, value, line_info) ==
    IF environment_invalid(value)
    THEN add_warning(st, <<"Invalid Environment '">> \o value
                         \o <<"' (should be one of: ">> \o join(valid_environments)
                         \o <<")">> \o line_info)
    ELSE st

\* item.get(key, ""): the validators' two inputs
get_or_empty(item, key) ==
    IF key \in item.keys THEN (IF key = "tagKey" THEN item.tagKey ELSE item.value)
    ELSE String(<<>>)

check_specific_tag_values(st, item, index, line_info) ==
    LET tag_key == get_or_empty(item, "tagKey")
        value == get_or_empty(item, "value").s
    IN  IF tag_key = String(DataClassification)
        THEN validate_data_classification(st, value, line_info)
        ELSE IF tag_key = String(BusinessGroups)
        THEN validate_business_groups(st, value, line_info)
        ELSE IF tag_key = String(OwningBusinessGroup)
        THEN validate_owning_business_group(st, value, line_info)
        ELSE IF tag_key = String(Environment)
        THEN validate_environment(st, value, line_info)
        ELSE st

(***************************************************************************)
(* _check_content: the body of its loop for one object, in three parts.    *)
(***************************************************************************)
\* item.get("tagKey", f"Item {i}"), as the messages show it
label(item, i) ==
    IF "tagKey" \in item.keys THEN py_str(item.tagKey) ELSE <<"Item ">> \o str(i)

check_required_keys(st, item, i, line_info) ==
    LET st1 == IF "tagKey" \notin item.keys
               THEN add_error(st, <<"Missing 'tagKey' at position ">> \o str(i)
                                  \o line_info)
               ELSE st
    IN  IF "value" \notin item.keys
        THEN add_error(st1, <<"Missing 'value' for '">> \o label(item, i) \o <<"'">>
                            \o line_info)
        ELSE st1

\* check_empty_values, were an empty field an error
check_empty_values_as_errors(st, item, i, line_info) ==
    LET st1 == IF "tagKey" \notin item.keys THEN st
               ELSE IF item.tagKey.ty # "string" THEN raise(st, "AttributeError")
               ELSE IF strip(item.tagKey.s) = <<>>
               THEN add_error(st, <<"Empty 'tagKey' at position ">> \o str(i)
                                  \o line_info)
               ELSE st
    IN  IF st1.raised # "" \/ "value" \notin item.keys THEN st1
        ELSE IF item.value.ty # "string" THEN raise(st1, "AttributeError")
        ELSE IF strip(item.value.s) = <<>>
        THEN add_error(st1, <<"Empty 'value' for '">> \o label(item, i) \o <<"'">>
                            \o line_info)
        ELSE st1

\* item[key].strip() raises AttributeError on anything but a string
check_empty_values(st, item, i, line_info) ==
    LET st1 == IF "tagKey" \notin item.keys THEN st
               ELSE IF item.tagKey.ty # "string" THEN raise(st, "AttributeError")
               ELSE IF strip(item.tagKey.s) = <<>>
               THEN add_warning(st, <<"Empty 'tagKey' at position ">> \o str(i)
                                    \o line_info)
               ELSE st
    IN  IF st1.raised # "" \/ "value" \notin item.keys THEN st1
        ELSE IF item.value.ty # "string" THEN raise(st1, "AttributeError")
        ELSE IF strip(item.value.s) = <<>>
        THEN add_warning(st1, <<"Empty 'value' for '">> \o label(item, i) \o <<"'">>
                              \o line_info)
        ELSE st1

\* check_item, were the tag rules to run before the key and emptiness checks
check_item_semantic_first(st, item, i) ==
    IF ~is_dict(item) THEN st
    ELSE LET line_info == get_line_info(st.line_map, i)
             st1 == check_specific_tag_values(st, item, i, line_info)
         IN  check_empty_values(check_required_keys(st1, item, i, line_info),
                                item, i, line_info)

check_item(st, item, i) ==
    IF ~is_dict(item) THEN st
    ELSE LET line_info == get_line_info(st.line_map, i)
             st1 == check_empty_values(check_required_keys(st, item, i, line_info),
                                       item, i, line_info)
         IN  IF st1.raised # "" THEN st1
             ELSE check_specific_tag_values(st1, item, i, line_info)

RECURSIVE check_content_loop(_, _, _)
check_content_loop(st, data, i) ==
    IF i >= Len(data.items) \/ st.raised # "" THEN st
    ELSE check_content_loop(check_item(st, data.items[i + 1], i), data, i + 1)

check_content(st, data) ==
    IF ~is_list(data) THEN st ELSE check_content_loop(st, data, 0)

RECURSIVE bullets(_)
bullets(messages) ==
    IF messages = <<>> THEN <<>>
    ELSE << <<"  * ">> \o Head(messages) >> \o bullets(Tail(messages))

print_results(st) ==
    IF st.errors = <<>> /\ st.warnings = <<>> THEN print(st, <<"[ok] No issues found!">>)
    ELSE LET e == IF st.errors # <<>>
                  THEN << <<"[x] ">> \o str(Len(st.errors)) \o <<" Error(s):">> >>
                       \o bullets(st.errors)
                  ELSE <<>>
             w == IF st.warnings # <<>>
                  THEN << <<"[!]  ">> \o str(Len(st.warnings)) \o <<" Warning(s):">> >>
                       \o bullets(st.warnings)
                  ELSE <<>>
         IN  [st EXCEPT !.stdout = @ \o e \o w]


(***************************************************************************)
(* Files.  A file is [exists, content, data, msg, lineno]: whether open()  *)
(* finds it, its text, and what json.loads makes of the text: the decoded  *)
(* document [ty, s, items], or a JSONDecodeError with its msg and lineno.  *)
(***************************************************************************)
DecodeError == [ty |-> "JSONDecodeError", s |-> <<>>, items |-> <<>>]

\* the decoded top-level array of the given elements
Array(items) == [ty |-> "array", s |-> <<>>, items |-> items]

\* a decoded top-level value that is no array
Scalar(v) == [ty |-> v.ty, s |-> v.s, items |-> <<>>]

json_loads(file) == file.data

\* reset, were lint_file to clear the line map only
reset_keeps_findings(st) == [st EXCEPT !.line_map = EmptyDict]

\* reset, were lint_file to clear the two lists only
reset_keeps_line_map(st) == [st EXCEPT !.errors = <<>>, !.warnings = <<>>]

reset(st) == [st EXCEPT !.errors = <<>>, !.warnings = <<>>, !.line_map = EmptyDict]

\* verdict, were warnings to count as failures
verdict_no_findings(st) ==
    IF Len(st.errors) = 0 /\ Len(st.warnings) = 0 THEN "True" ELSE "False"

\* len(self.errors) == 0, as the string of the returned bool
verdict(st) == IF Len(st.errors) = 0 THEN "True" ELSE "False"

\* lint_file: [st, ret], ret the returned bool or the exception that left the call
lint_file(st, file, filename) ==
    LET st0 == reset(st) IN
    IF ~file.exists
    THEN [st |-> print(st0, <<"[x] Error: File '", filename, "' not found">>),
          ret |-> "False"]
    ELSE IF json_loads(file) = DecodeError
    THEN [st |-> print(st0, <<"[x] Error: Invalid JSON - ", file.msg, " at line ">>
                            \o str(file.lineno)),
          ret |-> "False"]
    ELSE LET data == json_loads(file)
             st1 == [st0 EXCEPT !.line_map = build_line_map(@, file.content)]
             st2 == check_content(check_structure(st1, data), data)
         IN  IF st2.raised # "" THEN [st |-> st2, ret |-> st2.raised]
             ELSE [st |-> print_results(st2), ret |-> verdict(print_results(st2))]

\* sys.exit(0 if success else 1); an uncaught exception ends the process with 1
exit_status(ret) == IF ret = "True" THEN 0 ELSE 1

(***************************************************************************)
(* The files the model lints: documents written out as json.dumps writes   *)
(* them, on one line or indented, and a few files that do not decode.      *)
(***************************************************************************)
\* a backslash before each quote and backslash: character p of s ends at
\* position p + (the number of escaped characters up to p) of the result
escape(s) ==
    LET escaped(p) == Cardinality({q \in 1..p : s[q] \in {"\"", "\\"}})
        n == Len(s) + escaped(Len(s))
    IN  [j \in 1..n |->
            LET p == CHOOSE q \in 1..Len(s) : (q + escaped(q - 1) <= j) /\ (j <= q + escaped(q))
            IN  IF j = p + escaped(p) THEN s[p] ELSE "\\"]

dumps_value(v) == IF v.ty = "string" THEN <<"\"">> \o escape(v.s) \o <<"\"">> ELSE v.s

RECURSIVE join_chars(_, _)
join_chars(sep, strings) ==
    IF strings = <<>> THEN <<>>
    ELSE IF Len(strings) = 1 THEN Head(strings)
    ELSE Head(strings) \o sep \o join_chars(sep, Tail(strings))

members(item) ==
    (IF "tagKey" \in item.keys
     THEN << <<"\"", "t", "a", "g", "K", "e", "y", "\"", ":", " ">>
             \o dumps_value(item.tagKey) >>
     ELSE <<>>)
    \o (IF "value" \in item.keys
        THEN << <<"\"", "v", "a", "l", "u", "e", "\"", ":", " ">>
                \o dumps_value(item.value) >>
        ELSE <<>>)

dumps_item(item, indent) ==
    IF ~is_dict(item) THEN dumps_value(item)
    ELSE IF members(item) = <<>> THEN <<"{", "}">>
    ELSE IF indent
    THEN <<"{", "\n">>
         \o join_chars(<<",", "\n">>,
                       [k \in 1..Len(members(item)) |->
                           <<" ", " ", " ", " ">> \o members(item)[k]])
         \o <<"\n", " ", " ", "}">>
    ELSE <<"{">> \o join_chars(<<",", " ">>, members(item)) \o <<"}">>

dumps(data, indent) ==
    IF ~is_list(data) THEN data.s
    ELSE IF data.items = <<>> THEN <<"[", "]">>
    ELSE IF indent
    THEN <<"[", "\n">>
         \o join_chars(<<",", "\n">>,
                       [k \in 1..Len(data.items) |->
                           <<" ", " ">> \o dumps_item(data.items[k], TRUE)])
         \o <<"\n", "]">>
    ELSE <<"[">>
         \o join_chars(<<",", " ">>,
                       [k \in 1..Len(data.items) |-> dumps_item(data.items[k], FALSE)])
         \o <<"]">>

JsonFile(data, indent) ==
    [exists |-> TRUE, content |-> dumps(data, indent), data |-> data,
     msg |-> "", lineno |-> 0]

Missing ==
    [exists |-> FALSE, content |-> <<>>, data |-> DecodeError, msg |-> "", lineno |-> 0]

\* [{"tagKey":"a","value":"b"},]
TrailingComma ==
    [exists |-> TRUE,
     content |-> <<"[", "{", "\"", "t", "a", "g", "K", "e", "y", "\"", ":", "\"", "a",
                   "\"", ",", "\"", "v", "a", "l", "u", "e", "\"", ":", "\"", "b", "\"",
                   "}", ",", "]">>,
     data |-> DecodeError, msg |-> "Expecting value", lineno |-> 1]

\* an array whose only object ends in a comma, on the second of three lines
TrailingMemberComma ==
    [exists |-> TRUE,
     content |-> <<"[", "\n", "{", "\"", "t", "a", "g", "K", "e", "y", "\"", ":", "\"",
                   "a", "\"", ",", "}", "\n", "]">>,
     data |-> DecodeError,
     msg |-> "Expecting property name enclosed in double quotes", lineno |-> 2]

Strings ==
    { <<>>, <<" ">>, <<"q", "a">>, <<"P", "r", "o", "d">>,
      <<"S", "t", "a", "g", "i", "n", "g">>, <<"g">>, <<" ", "g">>, <<"g", "i", "p">>,
      <<"E", "n", "g", "1">>, <<"D", "C", "L", "1">>, <<"d", "c", "l", "1">>,
      <<"F", "i", "n", "a", "n", "c", "e", " ", "T", "e", "a", "m">>,
      <<"p", "l", "a", "t", " ", "f", "o", "r", "m">> }

NonStrings == {Null, Number(<<"5">>), JTrue, EmptyObject, EmptyArray}

TagKeys ==
    {Absent, Null, Number(<<"1">>)}
    \cup {String(s) : s \in {<<>>, <<" ">>, <<"O", "w", "n", "e", "r">>, Environment,
                             BusinessGroups, DataClassification, OwningBusinessGroup}}

Values == {Absent} \cup NonStrings \cup {String(s) : s \in Strings}

Elements ==
    {Object(k, v) : k \in TagKeys, v \in Values}
    \cup {Element(v) : v \in {String(<<"x">>), Number(<<"1">>), Null}}

\* the elements the longer arrays are made of: a semantic warning, a field
\* warning, two field errors, a structural error, no finding, an exception
CoreElements ==
    { Object(String(Environment), String(<<"q", "a">>)),
      Object(String(<<>>), String(<<"P", "r", "o", "d">>)),
      Object(Absent, Absent),
      Element(Number(<<"1">>)),
      Object(String(Environment), String(<<"P", "r", "o", "d">>)),
      Object(String(BusinessGroups), Null) }

RECURSIVE Tuples(_, _)
Tuples(S, n) ==
    IF n = 0 THEN {<<>>} ELSE {Append(t, x) : t \in Tuples(S, n - 1), x \in S}

Documents ==
    {Array(<<>>)}
    \cup {Array(<<e>>) : e \in Elements}
    \cup UNION {{Array(t) : t \in Tuples(CoreElements, n)} : n \in 2..MaxItems}
    \cup {[ty |-> "object", s |-> <<"{", "\"", "a", "\"", ":", " ", "1", "}">>,
           items |-> <<>>]}
    \cup {Scalar(v) : v \in {String(<<"x">>), Number(<<"1">>), JTrue, Null}}

Files ==
    {JsonFile(d, indent) : d \in Documents, indent \in BOOLEAN}
    \cup {TrailingMemberComma}

\* the second file of a disk: one of each kind
OtherFiles ==
    { Missing, TrailingComma,
      JsonFile(Scalar(Null), FALSE),
      JsonFile(Array(<<Object(String(Environment), String(<<"P", "r", "o", "d">>))>>),
               TRUE),
      JsonFile(Array(<<Object(Absent, String(<<>>)), Element(Number(<<"1">>))>>), TRUE),
      JsonFile(Array(<<Object(Absent, Absent), Object(Null, Absent)>>), FALSE) }

Filenames == {"a.json", "b.json"}

Disks == {[f \in Filenames |-> IF f = "a.json" THEN a ELSE b] : a \in Files, b \in OtherFiles}

\* sys.argv
Argvs ==
    { <<"simple_linter.py">>, <<"simple_linter.py", "a.json">>,
      <<"simple_linter.py", "b.json">>, <<"simple_linter.py", "a.json", "b.json">> }

(***************************************************************************)
(* The state machine: one process holding one SimpleLinter.  Init is the   *)
(* state after SimpleLinter(); result is what the last lint_file call      *)
(* returned ("None" before any call) or the exception that left it; stdout *)
(* is what the last call printed; exit_code is -1 while the process runs;  *)
(* prior is a history variable, the number of findings the instance held   *)
(* when the last call began.                                               *)
(***************************************************************************)
Init ==
    /\ disk \in Disks
    /\ errors = Constructed.errors
    /\ warnings = Constructed.warnings
    /\ line_map = Constructed.line_map
    /\ stdout = <<>>
    /\ result = "None"
    /\ last = ""
    /\ calls = 0
    /\ exit_code = -1
    /\ prior = 0

self == [errors |-> errors, warnings |-> warnings, line_map |-> line_map,
         stdout |-> <<>>, raised |-> ""]

\* linter.lint_file(filename), called by a program that holds the instance
LintFile(filename) ==
    /\ exit_code = -1
    /\ calls < MaxCalls
    /\ LET r == lint_file(self, disk[filename], filename) IN
         /\ errors' = r.st.errors
         /\ warnings' = r.st.warnings
         /\ line_map' = r.st.line_map
         /\ stdout' = r.st.stdout
         /\ result' = r.ret
    /\ last' = filename
    /\ calls' = calls + 1
    /\ prior' = Len(errors) + Len(warnings)
    /\ UNCHANGED <<disk, exit_code>>

\* main() with the given sys.argv, run as the script
Main(argv) ==
    /\ exit_code = -1
    /\ calls = 0
    /\ IF Len(argv) # 2
       THEN /\ stdout' = << <<"Usage: python simple_linter.py <json_file>">> >>
            /\ exit_code' = 1
            /\ UNCHANGED <<disk, errors, warnings, line_map, result, last, calls, prior>>
       ELSE LET r == lint_file(Constructed, disk[argv[2]], argv[2]) IN
              /\ errors' = r.st.errors
              /\ warnings' = r.st.warnings
              /\ line_map' = r.st.line_map
              /\ stdout' = r.st.stdout
              /\ result' = r.ret
              /\ last' = argv[2]
              /\ calls' = calls + 1
              /\ exit_code' = exit_status(r.ret)
              /\ UNCHANGED <<disk, prior>>

Next ==
    \/ \E filename \in Filenames : LintFile(filename)
    \/ \E argv \in Argvs : Main(argv)

Spec == Init /\ [][Next]_vars

(***************************************************************************)
(* _build_line_map on its own: any raw text, decodable or not.             *)
(***************************************************************************)
TextChars == {"{", "}", ",", "\n", "a"}

RawTexts == UNION {Tuples(TextChars, n) : n \in 0..MaxText}

\* a file of which only the text matters
RawFile(text) ==
    [exists |-> TRUE, content |-> text, data |-> DecodeError, msg |-> "", lineno |-> 0]

InitText ==
    /\ disk \in {[f \in Filenames |-> IF f = "a.json" THEN RawFile(t) ELSE Missing] :
                   t \in RawTexts}
    /\ errors = Constructed.errors
    /\ warnings = Constructed.warnings
    /\ line_map = Constructed.line_map
    /\ stdout = <<>>
    /\ result = "None"
    /\ last = ""
    /\ calls = 0
    /\ exit_code = -1
    /\ prior = 0

\* self._build_line_map(content) on the text of a file, line_map being {} as
\* lint_file leaves it before the call
BuildLineMap(filename) ==
    /\ calls = 0
    /\ disk[filename].exists
    /\ line_map' = build_line_map(line_map, disk[filename].content)
    /\ last' = filename
    /\ calls' = 1
    /\ UNCHANGED <<disk, errors, warnings, stdout, result, exit_code, prior>>

NextText == \E filename \in Filenames : BuildLineMap(filename)

SpecLineMap == InitText /\ [][NextText]_vars

(***************************************************************************)
(* What the properties speak of.                                           *)
(***************************************************************************)
\* the last call found its file and decoded it
Decoded == calls > 0 /\ disk[last].exists /\ json_loads(disk[last]) # DecodeError

\* the last call ran its checks to the end and returned
Completed == Decoded /\ result \in {"True", "False"}

\* the elements of the last document
Items == json_loads(disk[last]).items

\* the findings of a list that begin with the given literal
Count(list, head) == Cardinality({k \in 1..Len(list) : Head(list[k]) = head})

\* the elements of the last document that satisfy P
CountItems(P(_)) == Cardinality({k \in 1..Len(Items) : P(Items[k])})

StructuralHeads == {"JSON should be an array", "Array is empty", "Item "}

FieldHeads ==
    {"Missing 'tagKey' at position ", "Missing 'value' for '",
     "Empty 'tagKey' at position ", "Empty 'value' for '"}

SemanticHeads ==
    {"Invalid Data Classification '", "Business Groups value '", "Business Groups '",
     "Owning Business group '", "Invalid Environment '"}

\* 1 for a structural finding, 2 for a field finding, 3 for a semantic one
Rank(msg) ==
    IF Head(msg) \in StructuralHeads THEN 1 ELSE IF Head(msg) \in FieldHeads THEN 2 ELSE 3

\* structural, then field, then semantic
Ordered(list) == \A j, k \in 1..Len(list) : j < k => Rank(list[j]) <= Rank(list[k])

StructuralFirst(list) ==
    \A j, k \in 1..Len(list) : (j < k /\ Rank(list[k]) = 1) => Rank(list[j]) = 1

\* the "tagKey" of an element is the given string
HasTagKey(item, name) == is_dict(item) /\ "tagKey" \in item.keys /\ item.tagKey = String(name)

\* the value the validators are given for an element
ValueOf(item) == IF "value" \in item.keys THEN item.value.s ELSE <<>>

(***************************************************************************)
(* The properties.                                                         *)
(***************************************************************************)

\* C1: when lint_file has run its checks to the end, it returns True (and main
\* exits with 0) if and only if the error list is empty, whatever the
\* warning list holds.
C1_VerdictIffNoErrors ==
    Completed =>
        /\ (result = "True") <=> (errors = <<>>)
        /\ exit_code # -1 => ((exit_code = 0) <=> (errors = <<>>))

\* a run with warnings and no error that main ends with exit code 0
C1_Witness ==
    Completed /\ errors = <<>> /\ Len(warnings) >= 2 /\ result = "True" /\ exit_code = 0

\* C2: when the decoded top-level value is no array, the run records the one
\* error "JSON should be an array" and no warning, and returns False.
C2_NotAnArray ==
    (Decoded /\ ~is_list(json_loads(disk[last]))) =>
        /\ errors = << <<"JSON should be an array">> >>
        /\ warnings = <<>>
        /\ result = "False"

\* a run on a top-level object
C2_Witness ==
    /\ Decoded
    /\ json_loads(disk[last]).ty = "object"
    /\ errors = << <<"JSON should be an array">> >>
    /\ result = "False"

\* C3: when the file is missing or is no valid JSON, lint_file returns False
\* with both lists (and the line map) empty, whatever an earlier run left,
\* and prints one message only.
C3_FatalShortCircuit ==
    (calls > 0 /\ ~Decoded) =>
        /\ result = "False"
        /\ errors = <<>>
        /\ warnings = <<>>
        /\ line_map = EmptyDict
        /\ Len(stdout) = 1

\* a malformed file linted on an instance that held findings
C3_Witness ==
    /\ calls >= 2
    /\ disk[last].exists
    /\ json_loads(disk[last]) = DecodeError
    /\ prior > 0
    /\ errors = <<>>
    /\ warnings = <<>>
    /\ result = "False"

\* C4: after any sequence of lint_file calls on one instance, the error list,
\* the warning list, the line map and the returned value are those a fresh
\* instance gives for the last file alone.
C4_NoStateLeaks ==
    calls > 0 =>
        LET fresh == lint_file(Constructed, disk[last], last) IN
          /\ errors = fresh.st.errors
          /\ warnings = fresh.st.warnings
          /\ line_map = fresh.st.line_map
          /\ result = fresh.ret

\* a third call, on a file with findings of its own, on an instance that
\* held findings
C4_Witness ==
    /\ calls = MaxCalls
    /\ prior > 0
    /\ Completed
    /\ errors # <<>>
    /\ warnings # <<>>
    /\ line_map # EmptyDict

\* C5 as stated: in the error list and in the warning list of a completed run
\* on an array, every structural finding precedes every field finding and
\* every field finding precedes every semantic finding.
C5_StructuralFieldSemantic ==
    (Completed /\ is_list(json_loads(disk[last]))) => Ordered(errors) /\ Ordered(warnings)

\* the warnings one element gives when checked alone, under the same line map
ItemWarnings(k) ==
    check_item([Constructed EXCEPT !.line_map = line_map], Items[k], k - 1).warnings

RECURSIVE ItemByItem(_)
ItemByItem(n) == IF n = 0 THEN <<>> ELSE ItemByItem(n - 1) \o ItemWarnings(n)

\* C5 as amended: structural findings come first in both lists; the error
\* list is in the order structural, field (it holds no semantic finding); the
\* warning list holds, after the structural warning, the warnings of the
\* elements one element after the other, each element's field warnings before
\* its semantic warnings.
C5_ItemByItem ==
    (Completed /\ is_list(json_loads(disk[last]))) =>
        /\ Ordered(errors)
        /\ \A k \in 1..Len(errors) : Rank(errors[k]) # 3
        /\ StructuralFirst(warnings)
        /\ warnings = (IF Items = <<>> THEN << <<"Array is empty">> >> ELSE <<>>)
                      \o ItemByItem(Len(Items))
        /\ \A k \in 1..Len(Items) : Ordered(ItemWarnings(k))

\* a semantic warning of the first element before a field warning of the second
C5_Witness ==
    /\ Completed
    /\ is_list(json_loads(disk[last]))
    /\ Len(warnings) >= 2
    /\ Rank(warnings[1]) = 3
    /\ Rank(warnings[2]) = 2

\* an object that holds "tagKey" or "value" with a value that is no string
HasNonString(item) ==
    /\ is_dict(item)
    /\ \/ "tagKey" \in item.keys /\ item.tagKey.ty # "string"
       \/ "value" \in item.keys /\ item.value.ty # "string"

\* C6: a run on an array of objects in which "tagKey" or "value" holds a value
\* that is no string ends with a returned verdict and a printed report.
C6_NonStringTolerated ==
    (/\ Decoded
     /\ is_list(json_loads(disk[last]))
     /\ \A k \in 1..Len(Items) : is_dict(Items[k])
     /\ \E k \in 1..Len(Items) : HasNonString(Items[k]))
    => (result \in {"True", "False"} /\ stdout # <<>>)

\* C7 as stated: a completed run holds one Environment warning for each
\* element with tagKey "Environment" whose lowercased value (the empty string
\* when "value" is absent) is none of the six environments.
C7_EnvironmentEveryValue ==
    Completed =>
        Count(warnings, "Invalid Environment '")
        = CountItems(LAMBDA item :
              /\ HasTagKey(item, Environment)
              /\ ~in_list(lower(ValueOf(item)), valid_environments))

\* C7 as amended: one Environment warning for each element with tagKey
\* "Environment" whose value is not empty and, lowercased, is none of the six
\* environments; none for an empty or absent value.
C7_EnvironmentNonEmpty ==
    Completed =>
        Count(warnings, "Invalid Environment '")
        = CountItems(LAMBDA item :
              /\ HasTagKey(item, Environment)
              /\ ValueOf(item) # <<>>
              /\ ~in_list(lower(ValueOf(item)), valid_environments))

\* "Prod" accepted in one run state, "qa" warned about in another: here the
\* accepted one, an Environment element whose value is valid only lowercased
C7_Witness ==
    /\ Completed
    /\ Len(Items) = 1
    /\ HasTagKey(Items[1], Environment)
    /\ ValueOf(Items[1]) = <<"P", "r", "o", "d">>
    /\ Count(warnings, "Invalid Environment '") = 0

\* C8 as stated: for the elements with tagKey "Business Groups" and a value
\* that is not empty, one "too short" warning for each whose trimmed value is
\* shorter than 2, and one prefix warning for each whose lowercased value
\* starts with none of gip, eng, ops, fin.
C8_BusinessGroupsTrimmed ==
    Completed =>
        /\ Count(warnings, "Business Groups value '")
           = CountItems(LAMBDA item :
                 /\ HasTagKey(item, BusinessGroups)
                 /\ ValueOf(item) # <<>>
                 /\ Len(strip(ValueOf(item))) < 2)
        /\ Count(warnings, "Business Groups '")
           = CountItems(LAMBDA item :
                 /\ HasTagKey(item, BusinessGroups)
                 /\ ValueOf(item) # <<>>
                 /\ \A k \in 1..Len(valid_prefixes) :
                        ~startswith(lower(ValueOf(item)), valid_prefixes[k]))

\* C8 as amended: the "too short" warning goes by the length of the value as
\* it is, untrimmed.
C8_BusinessGroupsUntrimmed ==
    Completed =>
        /\ Count(warnings, "Business Groups value '")
           = CountItems(LAMBDA item :
                 /\ HasTagKey(item, BusinessGroups)
                 /\ ValueOf(item) # <<>>
                 /\ Len(ValueOf(item)) < 2)
        /\ Count(warnings, "Business Groups '")
           = CountItems(LAMBDA item :
                 /\ HasTagKey(item, BusinessGroups)
                 /\ ValueOf(item) # <<>>
                 /\ \A k \in 1..Len(valid_prefixes) :
                        ~startswith(lower(ValueOf(item)), valid_prefixes[k]))

\* the value "g": both warnings
C8_Witness ==
    /\ Completed
    /\ Len(Items) = 1
    /\ HasTagKey(Items[1], BusinessGroups)
    /\ ValueOf(Items[1]) = <<"g">>
    /\ Count(warnings, "Business Groups value '") = 1
    /\ Count(warnings, "Business Groups '") = 1

\* C9: after a completed run on an array, the error list holds one entry for
\* each element that is no object, one for each object without "tagKey", one
\* for each object without "value", and nothing else.
C9_ErrorsAreShapeOnly ==
    (Completed /\ is_list(json_loads(disk[last]))) =>
        /\ Count(errors, "Item ") = CountItems(LAMBDA item : ~is_dict(item))
        /\ Count(errors, "Missing 'tagKey' at position ")
           = CountItems(LAMBDA item : is_dict(item) /\ "tagKey" \notin item.keys)
        /\ Count(errors, "Missing 'value' for '")
           = CountItems(LAMBDA item : is_dict(item) /\ "value" \notin item.keys)
        /\ Len(errors) = Count(errors, "Item ")
                         + Count(errors, "Missing 'tagKey' at position ")
                         + Count(errors, "Missing 'value' for '")

\* two elements: the first gives warnings only, the second is still checked
\* and gives the only errors
C9_Witness ==
    /\ Completed
    /\ Len(Items) = 2
    /\ is_dict(Items[1]) /\ Items[1].keys = {"tagKey", "value"}
    /\ is_dict(Items[2]) /\ Items[2].keys = {}
    /\ warnings # <<>>
    /\ Len(errors) = 2

\* the number of the line that holds character p of the text
LineOf(content, p) == 1 + Cardinality({q \in 1..(p - 1) : content[q] = "\n"})

\* the numbers of the lines that hold an opening brace
BraceLines(content) ==
    {LineOf(content, p) : p \in {q \in 1..Len(content) : content[q] = "{"}}

\* C10: _build_line_map records index k for the (k+1)-th line that holds an
\* opening brace and nothing else, the line numbers growing with the index;
\* _get_line_info gives " (line N)" for a recorded index and "" for any other.
C10_LineMap ==
    calls = 1 =>
        LET lines == BraceLines(disk[last].content)
            n == Cardinality(lines)
        IN  /\ DOMAIN line_map = 0..(n - 1)
            /\ \A k \in DOMAIN line_map :
                   /\ line_map[k] \in lines
                   /\ Cardinality({l \in lines : l < line_map[k]}) = k
            /\ \A j, k \in DOMAIN line_map : j < k => line_map[j] < line_map[k]
            /\ \A i \in -1..(MaxText + 1) :
                   get_line_info(line_map, i)
                   = IF i \in 0..(n - 1)
                     THEN <<" (line ", Digits[line_map[i] + 1], ")">>
                     ELSE <<>>

\* two brace lines with a line of "}," between them
C10_Witness ==
    /\ calls = 1
    /\ disk[last].content = <<"{", "\n", "}", ",", "\n", "{">>
    /\ DOMAIN line_map = {0, 1}
    /\ line_map[0] = 1
    /\ line_map[1] = 3

====
